---- MODULE Spec2Model ----
(***************************************************************************)
(* A model of rustify's ingestion and download orchestration:              *)
(*   src/src/main.rs           the line loop and the single processing run *)
(*   src/src/processor/mod.rs  ItemsProcessor: load_item, process_items,   *)
(*                             process_single_item, save_audio_item,       *)
(*                             run_helper_script                           *)
(* Text is modelled as sequences of one-character strings, so that the     *)
(* pattern match, trim, sanitize and path formatting are computed.         *)
(***************************************************************************)
EXTENDS Integers, Sequences, FiniteSets, TLC

(***************************************************************************)
(* Bounds of the model.                                                    *)
(***************************************************************************)
\* how many lines the input holds before its terminator / end of input
MaxLines == 2
\* how many times a client of ItemsProcessor calls process_items (SpecApi)
MaxRuns == 2

(***************************************************************************)
(* Program constants.                                                      *)
(***************************************************************************)
DELAY_BETWEEN_ITEMS == 10
MAX_PENALTY_DELAY == 300
PENALTY_STEP == 60

(***************************************************************************)
(* Characters and text helpers.                                            *)
(***************************************************************************)
Lower == {"a","b","c","d","e","f","g","h","i","j","k","l","m",
          "n","o","p","q","r","s","t","u","v","w","x","y","z"}
Upper == {"A","B","C","D","E","F","G","H","I","J","K","L","M",
          "N","O","P","Q","R","S","T","U","V","W","X","Y","Z"}
Digit == {"0","1","2","3","4","5","6","7","8","9"}
\* the character class [a-zA-Z0-9] of the pattern
AlNum == Lower \cup Upper \cup Digit
\* the separator class [/:] of the pattern
Separator == {"/", ":"}
Whitespace == {" ", "\t"}

Min(S) == CHOOSE x \in S : \A y \in S : x <= y
Max(S) == CHOOSE x \in S : \A y \in S : y <= x

\* variant: the text as it is
NoTrim(s) == s
\* str::trim: the text without its leading and trailing whitespace
trim(s) ==
    LET keep == {i \in 1..Len(s) : s[i] \notin Whitespace}
    IN  IF keep = {} THEN <<>> ELSE SubSeq(s, Min(keep), Max(keep))

\* characters sanitize_filename removes
IllegalChars == {"/", "?", "<", ">", "\\", ":", "*", "|", "\""}
NotIllegal(c) == c \notin IllegalChars

\* sanitize_filename::sanitize: illegal characters removed, then trailing
\* dots and spaces removed
sanitize(s) ==
    LET t == SelectSeq(s, NotIllegal)
        keep == {i \in 1..Len(t) : t[i] \notin {".", " "}}
    IN  IF keep = {} THEN <<>> ELSE SubSeq(t, 1, Max(keep))

(***************************************************************************)
(* The pattern (playlist|track|album|episode|show)[/:]([a-zA-Z0-9]+)       *)
(***************************************************************************)
KindNames == <<"playlist", "track", "album", "episode", "show">>
KindTokens ==
    << <<"p","l","a","y","l","i","s","t">>,
       <<"t","r","a","c","k">>,
       <<"a","l","b","u","m">>,
       <<"e","p","i","s","o","d","e">>,
       <<"s","h","o","w">> >>

\* tok occurs in line at position i
HasAt(line, i, tok) ==
    /\ i + Len(tok) - 1 <= Len(line)
    /\ \A j \in 1..Len(tok) : line[i + j - 1] = tok[j]

\* alternative k of the pattern matches at position i: the kind token, one
\* separator, and at least one alphanumeric character
MatchesAt(line, i, k) ==
    LET p == i + Len(KindTokens[k])
    IN  /\ HasAt(line, i, KindTokens[k])
        /\ p + 1 <= Len(line)
        /\ line[p] \in Separator
        /\ line[p + 1] \in AlNum

\* variant: the id group takes one character
RunEndFirst(line, p) == p
\* last position of the longest alphanumeric run that starts at p
RunEnd(line, p) ==
    Max({q \in p..Len(line) : \A j \in p..q : line[j] \in AlNum})

NoMatch == [matched |-> FALSE, kind |-> "", id |-> <<>>]

\* Regex::captures: the leftmost match, the alternatives tried in order, the
\* id group greedy
captures(line) ==
    LET starts == {i \in 1..Len(line) :
                      \E k \in 1..Len(KindTokens) : MatchesAt(line, i, k)}
    IN  IF starts = {} THEN NoMatch
        ELSE LET i == Min(starts)
                 k == Min({a \in 1..Len(KindTokens) : MatchesAt(line, i, a)})
                 p == i + Len(KindTokens[k]) + 1
             IN  [matched |-> TRUE, kind |-> KindNames[k],
                  id |-> SubSeq(line, p, RunEnd(line, p))]

\* SpotifyItemType::from(&str)
ItemTypeFrom(name) ==
    CASE name = "album"    -> "Album"
      [] name = "artist"   -> "Artist"
      [] name = "episode"  -> "Episode"
      [] name = "playlist" -> "Playlist"
      [] name = "show"     -> "Show"
      [] name = "track"    -> "Track"
      [] name = "local"    -> "Local"
      [] OTHER             -> "Unknown"

(***************************************************************************)
(* The remote catalog the session answers from (the environment).          *)
(***************************************************************************)
T1 == <<"T","1">>
T2 == <<"T","2">>
T3 == <<"T","3">>
E1 == <<"E","1">>
P1 == <<"P","1">>
A1 == <<"A","1">>
A2 == <<"A","2">>
A3 == <<"A","3">>
S1 == <<"S","1">>

\* the id texts SpotifyId::from_base62 decodes; any other text is an error
DecodableIds == {T1, T2, T3, E1, P1, A1, A2, A3, S1}

SpotifyId(id, type) == [id |-> id, item_type |-> type]
Track(id) == SpotifyId(id, "Track")
Episode(id) == SpotifyId(id, "Episode")

Playlists ==
    (P1 :> [name |-> <<"x",".">>, members |-> <<Track(T1)>>])
\* albums A1 " y" and A2 "y/" sanitize to the same folder name and share T2,
\* and A2 lists T2 twice; album A3 "z" holds nothing
Albums ==
    (A1 :> [name |-> <<" ","y">>, members |-> <<Track(T1), Track(T2)>>]) @@
    (A2 :> [name |-> <<"y","/">>,
            members |-> <<Track(T2), Track(T3), Track(T2)>>]) @@
    (A3 :> [name |-> <<"z">>, members |-> <<>>])
Shows ==
    (S1 :> [name |-> <<"s">>, members |-> <<Episode(E1)>>])

(***************************************************************************)
(* The lines the user may type.                                            *)
(***************************************************************************)
LTrackT1 == <<"s","p","o","t","i","f","y",":","t","r","a","c","k",":","T","1">>
LTrackT1Url == <<" ","t","r","a","c","k","/","T","1","?","s","i"," ">>
LAlbumA1 == <<"a","l","b","u","m","/","A","1">>
LAlbumA2 == <<"a","l","b","u","m",":","A","2">>
LAlbumA3 == <<"a","l","b","u","m",":","A","3">>
LPlaylistP1 == <<"p","l","a","y","l","i","s","t",":","P","1">>
LEpisodeE1 == <<"e","p","i","s","o","d","e",":","E","1">>
LShowS1 == <<"s","h","o","w",":","S","1">>
LJunk == <<"h","e","l","l","o">>
LBadId == <<"t","r","a","c","k",":","z","z","z">>
LDone == <<" ","d","o","n","e"," ">>
LDoneCap == <<"D","o","n","e">>
LDoneNow == <<"d","o","n","e"," ","n","o","w">>
\* two kind tokens, each followed by a separator and an alphanumeric run
LShowTrack == <<"s","h","o","w",":","t","r","a","c","k",":","T","1">>
Terminator == <<"d","o","n","e">>

InputLines == {LTrackT1, LTrackT1Url, LAlbumA1, LAlbumA2, LAlbumA3,
               LPlaylistP1, LEpisodeE1, LShowS1, LJunk, LBadId, LDone,
               LDoneCap, LDoneNow, LShowTrack}

(***************************************************************************)
(* HashMap<GroupPath, HashSet<SpotifyId>>: a function from group paths to  *)
(* the stored entries of each set: element -> number of stored copies.     *)
(***************************************************************************)
EmptyMap == <<>>

EmptySet == <<>>

HashSetInsertDup(s, x) ==
    IF x \in DOMAIN s THEN [s EXCEPT ![x] = @ + 1] ELSE (x :> 1) @@ s

\* HashSet::insert: an element equal to a present one is not added
HashSetInsert(s, x) ==
    IF x \in DOMAIN s THEN s ELSE (x :> 1) @@ s

RECURSIVE Copies(_, _)
Copies(s, D) ==
    IF D = {} THEN 0
    ELSE LET x == CHOOSE y \in D : TRUE IN s[x] + Copies(s, D \ {x})

\* HashSet::len
HashSetLen(s) == Copies(s, DOMAIN s)

RECURSIVE HashSetExtend(_, _)
\* HashSet::extend: insert every element the iterator yields
HashSetExtend(s, xs) ==
    IF xs = <<>> THEN s
    ELSE HashSetExtend(HashSetInsert(s, Head(xs)), Tail(xs))

\* HashMap::entry(k).or_insert_with(HashSet::new)
OrInsertNew(m, k) == IF k \in DOMAIN m THEN m ELSE (k :> EmptySet) @@ m

\* grouped_ids.entry(k).or_insert_with(HashSet::new).extend(xs)
Ingest(m, k, xs) ==
    LET e == OrInsertNew(m, k)
    IN  [e EXCEPT ![k] = HashSetExtend(e[k], xs)]

\* variant: track lines land in the episodes group
GTracksAsEpisodes == <<"e","p","i","s","o","d","e","s">>
GTracks == <<"t","r","a","c","k","s">>
GEpisodes == <<"e","p","i","s","o","d","e","s">>
PlaylistsPrefix == <<"p","l","a","y","l","i","s","t","s","/">>
AlbumsPrefix == <<"a","l","b","u","m","s","/">>
ShowsPrefix == <<"s","h","o","w","s","/">>

\* format!("<prefix>{}", sanitize(name).trim())
GroupPathOf(prefix, name) == prefix \o trim(sanitize(name))


(***************************************************************************)
(* The audio items the session serves (the environment): the display name, *)
(* the contributors and the encoding load_track ends up selecting.         *)
(* T1 "a" and T3 "a/" by the same artist sanitize to the same file name.   *)
(***************************************************************************)
AudioItems ==
    (T1 :> [name |-> <<"a">>, origins |-> << <<"q">> >>,
            format |-> "OGG_VORBIS_320"]) @@
    (T2 :> [name |-> <<"b">>, origins |-> << <<"q">>, <<"r">> >>,
            format |-> "MP3_320"]) @@
    (T3 :> [name |-> <<"a","/">>, origins |-> << <<"q">> >>,
            format |-> "OGG_VORBIS_160"]) @@
    (E1 :> [name |-> <<"e">>, origins |-> <<>>,
            format |-> "OGG_VORBIS_96"])

RECURSIVE Join(_, _)
\* [&str]::join(sep)
Join(parts, sep) ==
    IF parts = <<>> THEN <<>>
    ELSE IF Len(parts) = 1 THEN parts[1]
    ELSE parts[1] \o sep \o Join(Tail(parts), sep)

\* sanitize(format!("{} - {}", name, origins.join(", "))).trim()
FileNameOf(item) ==
    trim(sanitize(item.name \o <<" ","-"," ">>
                  \o Join(item.origins, <<","," ">>)))

OggFormats == {"OGG_VORBIS_96", "OGG_VORBIS_160", "OGG_VORBIS_320"}
Mp3Formats == {"MP3_96", "MP3_160", "MP3_160_ENC", "MP3_256", "MP3_320"}
FlacFormats == {"FLAC_FLAC"}

NoExtension == <<>>
\* the extension match of save_audio_item
ExtensionOf(format) ==
    IF format \in OggFormats THEN <<"o","g","g">>
    ELSE IF format \in Mp3Formats THEN <<"m","p","3">>
    ELSE IF format \in FlacFormats THEN <<"f","l","a","c">>
    ELSE NoExtension

\* format!("{}.{}", fname, extension), for every item of the catalog
FileOf == [i \in DOMAIN AudioItems |->
              FileNameOf(AudioItems[i]) \o <<".">>
              \o ExtensionOf(AudioItems[i].format)]

\* dir_path.join(file); dir_path is the group path below the base directory
FullPath(dir, file) == <<dir, file>>

(***************************************************************************)
(* What the environment answers during one save attempt.                   *)
(*   load    how load_track ends: "Ok", an error kind, or a panic          *)
(*   cover   whether the item lists a cover                                *)
(*   encode  whether track_id.to_base62() succeeds                         *)
(*   helper  how the tag_ogg.sh run ends                                   *)
(*   raw     how the raw write ends                                        *)
(***************************************************************************)
\* errors load_track returns: the key request denied (AudioKeyError::AesKey),
\* another key error, the item unavailable, another remote error
LoadErrors == {"AesKey", "KeyOther", "Unavailable", "Remote"}
HelperOutcomes == {"ok", "spawn", "pipe", "write", "wait", "nonzero"}
RawOutcomes == {"ok", "create", "write"}

SaveEnvs ==
    [load : LoadErrors \cup {"Panic"}, cover : {TRUE}, encode : {TRUE},
     helper : {"ok"}, raw : {"ok"}]
    \cup [load : {"Ok"}, cover : {FALSE}, encode : {TRUE},
          helper : {"ok"}, raw : {"ok"}]
    \cup [load : {"Ok"}, cover : {TRUE}, encode : {FALSE},
          helper : {"ok"}, raw : {"ok"}]
    \cup [load : {"Ok"}, cover : {TRUE}, encode : {TRUE},
          helper : {"ok"}, raw : {"ok"}]
    \cup [load : {"Ok"}, cover : {TRUE}, encode : {TRUE},
          helper : {"spawn", "nonzero"}, raw : RawOutcomes]

\* variant: the script is run for every extension
run_helper_any(ext, helper) ==
    [ok |-> helper = "ok", spawned |-> helper # "spawn"]
\* run_helper_script: only "ogg" has a script; every failing step is an Err
run_helper_script(ext, helper) ==
    IF ext = <<"o","g","g">>
    THEN [ok |-> helper = "ok", spawned |-> helper # "spawn"]
    ELSE [ok |-> FALSE, spawned |-> FALSE]

SaveErr(kind, fsys, spawned) ==
    [result |-> "Err", how |-> kind, files |-> fsys, spawned |-> spawned]
SaveOk(how, fsys, spawned) ==
    [result |-> "Ok", how |-> how, files |-> fsys, spawned |-> spawned]

\* save_audio_item(spotify_id, dir_path) on the file system fsys
save_audio_item(id, dir, fsys, env) ==
    IF env.load = "Panic"
    THEN [result |-> "Panic", how |-> "Panic", files |-> fsys,
          spawned |-> FALSE]
    ELSE IF env.load # "Ok" THEN SaveErr(env.load, fsys, FALSE)
    ELSE IF ~env.cover THEN SaveErr("NotFound", fsys, FALSE)
    ELSE IF ~env.encode THEN SaveErr("Encode", fsys, FALSE)
    ELSE LET item == AudioItems[id.id]
             ext == ExtensionOf(item.format)
             path == FullPath(dir, FileOf[id.id])
             h == run_helper_script(ext, env.helper)
         IN  IF ext = NoExtension THEN SaveErr("Internal", fsys, FALSE)
             ELSE IF path \in DOMAIN fsys THEN SaveOk("Skipped", fsys, FALSE)
             ELSE IF h.ok
                  THEN SaveOk("Tagged", (path :> "tagged") @@ fsys, h.spawned)
             ELSE IF env.raw = "create" THEN SaveErr("Io", fsys, h.spawned)
             ELSE IF env.raw = "write"
                  THEN SaveErr("Io", (path :> "partial") @@ fsys, h.spawned)
             ELSE SaveOk("Raw", (path :> "raw") @@ fsys, h.spawned)

(***************************************************************************)
(* load_item as a function of the store, the line and the remote answer.   *)
(***************************************************************************)
LoadOk(m) == [store |-> m, result |-> "Ok"]
LoadErr(m, kind) == [store |-> m, result |-> kind]

\* X::get(&self.session, &spotify_id).await?, then the entry under
\* "<prefix><sanitized name>" extended by the members
IngestCollection(m, prefix, catalog, id, remoteOk) ==
    IF remoteOk /\ id \in DOMAIN catalog
    THEN LoadOk(Ingest(m, GroupPathOf(prefix, catalog[id].name),
                       catalog[id].members))
    ELSE LoadErr(m, "RemoteErr")

LoadItem(m, line, remoteOk) ==
    LET c == captures(line)
        type == ItemTypeFrom(c.kind)
    IN  IF ~c.matched THEN LoadOk(m)
        ELSE IF c.id \notin DecodableIds THEN LoadErr(m, "IdErr")
        ELSE IF type = "Playlist"
             THEN IngestCollection(m, PlaylistsPrefix, Playlists, c.id, remoteOk)
        ELSE IF type = "Album"
             THEN IngestCollection(m, AlbumsPrefix, Albums, c.id, remoteOk)
        ELSE IF type = "Track"
             THEN LoadOk(Ingest(m, GTracks, <<SpotifyId(c.id, "Track")>>))
        ELSE IF type = "Episode"
             THEN LoadOk(Ingest(m, GEpisodes, <<SpotifyId(c.id, "Episode")>>))
        ELSE IF type = "Show"
             THEN IngestCollection(m, ShowsPrefix, Shows, c.id, remoteOk)
        ELSE LoadOk(m)

(***************************************************************************)
(* State.                                                                  *)
(***************************************************************************)
VARIABLES
    grouped_ids,    \* ItemsProcessor.grouped_ids
    penalty_delay,  \* ItemsProcessor.penalty_delay, in seconds
    files,          \* the files below the base directory: path -> content
    dirs,           \* the group directories create_dir_all has made
    mainpc,         \* main: "ingest", "process", "wait", "exit"
    pc,             \* the processor: "idle", or the place inside
                    \* process_items: "group", "item", "backoff", "pacing";
                    \* "panic" once the process has panicked
    nread,          \* lines handed to load_item so far
    runs,           \* calls of process_items so far
    taken,          \* process_items' local grouped_ids: the groups not yet
                    \* visited (kept as they were when the call returned)
    group,          \* the group path being processed
    members,        \* spotify_ids of that group, in iteration order
    index,          \* the enumerate() index of the current item
    denied,         \* key-denied failures of the current item so far
    start_delay,    \* penalty_delay when the current item was started
    sleeps,         \* pacing sleeps taken inside the current group
    result,         \* what the last process_items call returned
    last,           \* the last step taken: [op, arg, result, secs]
    drained,        \* the groups mem::take handed to the running call
    finals,         \* <<group, id>> -> final outcomes (saved or abandoned)
    since,          \* key-denied failures since the last successful save step
                    \* the item has had in the running call
    \* one save_audio_item call, statement by statement
    spc,            \* the place inside the call: "idle", "probing", "found",
                    \* "loaded", "helper", "raw", "returned", "panic"
    senv,           \* what the session and the system answer in this call
    pending,        \* alternatives whose fetch has not completed
    probed,         \* alternatives whose fetch has been started
    sitem,          \* the audio item in use: 0 the requested one, i its
                    \* i-th alternative, -1 none
    sformat,        \* the encoding load_track selected
    sbuf,           \* LoadedTrackData.audio_buffer
    spawns,         \* helper processes spawned in this call
    files0,         \* the files when the call started
    sret            \* what the call returned: [result, how]

vars == <<grouped_ids, penalty_delay, files, dirs, mainpc, pc, nread, runs,
          taken, group, members, index, denied, start_delay, sleeps, result,
          last, drained, finals, since, spc, senv, pending, probed, sitem, sformat, sbuf, spawns,
          files0, sret>>

\* the variables of the single save_audio_item call
savevars == <<spc, senv, pending, probed, sitem, sformat, sbuf, spawns,
              files0, sret>>

\* the loop variables of process_items
loopvars == <<group, members, index, denied, start_delay, sleeps>>

NoGroup == <<>>
Step(op, arg, res, secs) ==
    [op |-> op, arg |-> arg, result |-> res, secs |-> secs]

\* ItemsProcessor::new, in an empty working directory
Init ==
    /\ grouped_ids = EmptyMap
    /\ penalty_delay = 0
    /\ files = EmptyMap
    /\ dirs = {}
    /\ mainpc = "ingest"
    /\ pc = "idle"
    /\ nread = 0
    /\ runs = 0
    /\ taken = EmptyMap
    /\ group = NoGroup
    /\ members = <<>>
    /\ index = 0
    /\ denied = 0
    /\ start_delay = 0
    /\ sleeps = 0
    /\ result = "none"
    /\ last = Step("new", <<>>, "Ok", 0)
    /\ drained = EmptyMap
    /\ finals = <<>>
    /\ since = 0
    /\ spc = "idle"
    /\ senv = <<>>
    /\ pending = {}
    /\ probed = {}
    /\ sitem = -1
    /\ sformat = "none"
    /\ sbuf = <<>>
    /\ spawns = 0
    /\ files0 = EmptyMap
    /\ sret = [result |-> "none", how |-> "none"]

(***************************************************************************)
(* ItemsProcessor::load_item                                               *)
(***************************************************************************)
load_item(line) ==
    /\ pc = "idle"
    /\ nread < MaxLines
    /\ \E remoteOk \in BOOLEAN :
         LET r == LoadItem(grouped_ids, line, remoteOk)
         IN  /\ grouped_ids' = r.store
             /\ last' = Step("load_item", line, r.result, 0)
    /\ nread' = nread + 1
    /\ UNCHANGED <<penalty_delay, files, dirs, runs, taken, loopvars, result>>
    /\ UNCHANGED <<drained, finals, since>>
    /\ UNCHANGED savevars

(***************************************************************************)
(* ItemsProcessor::process_items                                           *)
(***************************************************************************)
\* variant: the store is cloned, not taken
AfterClone(m) == m
\* what mem::take leaves in self.grouped_ids
AfterTake(m) == EmptyMap

\* the call, up to mem::take; the loop variables are new in every call
process_items ==
    /\ pc = "idle"
    /\ runs < MaxRuns
    /\ runs' = runs + 1
    /\ IF DOMAIN grouped_ids = {}
       THEN /\ result' = "Ok"
            /\ taken' = EmptyMap
            /\ last' = Step("process_items", <<>>, "Empty", 0)
            /\ UNCHANGED <<grouped_ids, pc>>
       ELSE /\ taken' = grouped_ids
            /\ grouped_ids' = AfterTake(grouped_ids)
            /\ pc' = "group"
            /\ result' = "none"
            /\ last' = Step("process_items", <<>>, "Taken", 0)
    /\ group' = NoGroup
    /\ members' = <<>>
    /\ index' = 0
    /\ denied' = 0
    /\ start_delay' = 0
    /\ sleeps' = 0
    /\ drained' = grouped_ids
    /\ finals' = <<>>
    /\ UNCHANGED since
    /\ UNCHANGED <<penalty_delay, files, dirs, nread>>
    /\ UNCHANGED savevars

\* variant: the visited group stays in the map
WithoutNone(m, k) == m
Without(m, k) == [x \in DOMAIN m \ {k} |-> m[x]]

\* the orders in which a HashSet may yield its entries
Orders(s) ==
    {p \in [1..HashSetLen(s) -> DOMAIN s] :
        \A x \in DOMAIN s : Cardinality({i \in DOMAIN p : p[i] = x}) = s[x]}

\* the head of the outer for loop: the next group and its directory, or the
\* end of the loop
next_group ==
    /\ pc = "group"
    /\ IF DOMAIN taken = {}
       THEN /\ pc' = "idle"
            /\ result' = "Ok"
            /\ last' = Step("return", <<>>, "Ok", 0)
            /\ group' = NoGroup
            /\ members' = <<>>
            /\ index' = 0
            /\ denied' = 0
            /\ start_delay' = 0
            /\ sleeps' = 0
            /\ UNCHANGED <<taken, dirs>>
       ELSE \E k \in DOMAIN taken :
              /\ IF HashSetLen(taken[k]) = 0
                 THEN /\ taken' = Without(taken, k)
                      /\ last' = Step("continue", k, "Empty", 0)
                      /\ UNCHANGED <<pc, result, dirs, loopvars>>
                 ELSE \E created \in BOOLEAN :
                        IF created
                        THEN /\ taken' = Without(taken, k)
                             /\ dirs' = dirs \cup {k}
                             /\ group' = k
                             /\ members' \in Orders(taken[k])
                             /\ index' = 0
                             /\ denied' = 0
                             /\ start_delay' = penalty_delay
                             /\ sleeps' = 0
                             /\ pc' = "item"
                             /\ last' = Step("create_dir_all", k, "Ok", 0)
                             /\ UNCHANGED result
                        ELSE /\ pc' = "idle"
                             /\ result' = "IoErr"
                             /\ last' = Step("create_dir_all", k, "Err", 0)
                             /\ UNCHANGED <<taken, dirs, loopvars>>
    /\ UNCHANGED <<grouped_ids, penalty_delay, files, mainpc, nread, runs>>
    /\ UNCHANGED <<drained, finals, since>>
    /\ UNCHANGED savevars

(***************************************************************************)
(* ItemsProcessor::process_single_item                                     *)
(***************************************************************************)
\* variant: any AudioKeyError counts as key-denied
IsAnyKeyError(how) == how \in {"AesKey", "KeyOther"}
\* Some(AudioKeyError::AesKey) = e.error.downcast_ref::<AudioKeyError>()
IsKeyDenied(how) == how = "AesKey"

\* variant: the penalty is kept after a successful save step
PenaltyKept(d) == d
\* the penalty after a successful save step
PenaltyAfterOk(d) == 0

\* variant: the penalty does not grow
PenalizedNot(d) == d
\* variant: the penalty grows by two steps
PenalizedTwice(d) == d + 2 * PENALTY_STEP
\* the penalty after one more key-denied failure
Penalized(d) == d + PENALTY_STEP

\* variant: abandoning an item clears the penalty
PenaltyCleared(d) == 0
\* the penalty after a failure that is not key-denied: the else branch only
\* logs and breaks
PenaltyAfterErr(d) == d

\* variant: the ceiling itself already aborts
AtCeiling(d) == d >= MAX_PENALTY_DELAY
\* the ceiling test
OverCeiling(d) == d > MAX_PENALTY_DELAY

\* variant: the comparison is off by one
NotLastOffByOne(i, n) == i # n
\* index != spotify_ids.len() - 1
NotLast(i, n) == i # n - 1

\* one more final outcome of item x
Counted(b, x) ==
    IF x \in DOMAIN b THEN [b EXCEPT ![x] = @ + 1] ELSE (x :> 1) @@ b

\* process_single_item has returned Ok: the pacing sleep, or the next group
after_item ==
    /\ pc' = IF NotLast(index, Len(members)) THEN "pacing" ELSE "group"
    /\ denied' = 0
    /\ start_delay' = penalty_delay'
    /\ finals' = Counted(finals, <<group, members[index + 1]>>)
    /\ UNCHANGED <<result, taken>>

\* one turn of the loop of process_single_item: save_audio_item and the match
\* on its result, up to the next sleep, break or return
attempt ==
    /\ pc = "item"
    /\ \E env \in SaveEnvs :
         LET id == members[index + 1]
             r == save_audio_item(id, group, files, env)
         IN  /\ files' = r.files
             /\ last' = Step("attempt", id, r.how, penalty_delay)
             /\ IF r.result = "Panic"
                THEN /\ pc' = "panic"
                     /\ UNCHANGED <<penalty_delay, result, taken, denied,
                                    start_delay, finals, since>>
                ELSE IF r.result = "Ok"
                THEN /\ penalty_delay' = PenaltyAfterOk(penalty_delay)
                     /\ since' = 0
                     /\ after_item
                ELSE IF IsKeyDenied(r.how)
                THEN /\ penalty_delay' = Penalized(penalty_delay)
                     /\ denied' = denied + 1
                     /\ since' = since + 1
                     /\ IF OverCeiling(penalty_delay')
                        THEN /\ pc' = "idle"
                             /\ result' = "Fatal"
                        ELSE /\ pc' = "backoff"
                             /\ UNCHANGED result
                     /\ UNCHANGED <<taken, start_delay, finals>>
                ELSE /\ penalty_delay' = PenaltyAfterErr(penalty_delay)
                     /\ UNCHANGED since
                     /\ after_item
    /\ UNCHANGED <<grouped_ids, dirs, mainpc, nread, runs, group, members,
                   index, sleeps, drained>>
    /\ UNCHANGED savevars

\* sleep(self.penalty_delay), then the loop turns again
backoff_sleep ==
    /\ pc = "backoff"
    /\ pc' = "item"
    /\ last' = Step("sleep", "backoff", "Ok", penalty_delay)
    /\ UNCHANGED <<grouped_ids, penalty_delay, files, dirs, mainpc, nread,
                   runs, taken, loopvars, result>>
    /\ UNCHANGED <<drained, finals, since>>
    /\ UNCHANGED savevars

\* sleep(DELAY_BETWEEN_ITEMS), then the inner for loop takes the next item
pacing_sleep ==
    /\ pc = "pacing"
    /\ pc' = "item"
    /\ index' = index + 1
    /\ sleeps' = sleeps + 1
    /\ last' = Step("sleep", "pacing", "Ok", DELAY_BETWEEN_ITEMS)
    /\ UNCHANGED <<grouped_ids, penalty_delay, files, dirs, mainpc, nread,
                   runs, taken, group, members, denied, start_delay, result>>
    /\ UNCHANGED <<drained, finals, since>>
    /\ UNCHANGED savevars

(***************************************************************************)
(* main: the line loop, then process_items once.                           *)
(***************************************************************************)
\* variant: an Err of load_item ends the line loop
AfterLoadBreak(res) == IF res = "Ok" THEN "ingest" ELSE "process"
\* where main goes after load_item has returned res: an Err is logged and
\* the loop goes on
AfterLoad(res) == "ingest"

\* a line that is not the terminator goes to load_item
main_load ==
    /\ mainpc = "ingest"
    /\ \E line \in InputLines :
         /\ trim(line) # Terminator
         /\ load_item(trim(line))
    /\ mainpc' = AfterLoad(last'.result)
    /\ UNCHANGED pc

\* a line that cannot be read is logged and the loop goes on
main_read_error ==
    /\ mainpc = "ingest"
    /\ pc = "idle"
    /\ nread < MaxLines
    /\ nread' = nread + 1
    /\ last' = Step("read_error", <<>>, "Err", 0)
    /\ UNCHANGED <<grouped_ids, penalty_delay, files, dirs, mainpc, pc, runs,
                   taken, loopvars, result>>
    /\ UNCHANGED <<drained, finals, since>>
    /\ UNCHANGED savevars

\* the terminator line, or the end of the input, ends the loop
main_done ==
    /\ mainpc = "ingest"
    /\ pc = "idle"
    /\ \/ \E line \in InputLines :
            /\ trim(line) = Terminator
            /\ last' = Step("terminator", line, "Ok", 0)
       \/ last' = Step("eof", <<>>, "Ok", 0)
    /\ mainpc' = "process"
    /\ UNCHANGED <<grouped_ids, penalty_delay, files, dirs, pc, nread, runs,
                   taken, loopvars, result>>
    /\ UNCHANGED <<drained, finals, since>>
    /\ UNCHANGED savevars

\* processor.process_items().await is entered
main_process ==
    /\ mainpc = "process"
    /\ process_items
    /\ mainpc' = "wait"

\* process_items has returned; main logs an Err and ends
main_exit ==
    /\ mainpc = "wait"
    /\ pc = "idle"
    /\ mainpc' = "exit"
    /\ last' = Step("exit", <<>>, result, 0)
    /\ UNCHANGED <<grouped_ids, penalty_delay, files, dirs, pc, nread, runs,
                   taken, loopvars, result>>
    /\ UNCHANGED <<drained, finals, since>>
    /\ UNCHANGED savevars

Next ==
    \/ main_load
    \/ main_read_error
    \/ main_done
    \/ main_process
    \/ main_exit
    \/ next_group
    \/ attempt
    \/ backoff_sleep
    \/ pacing_sleep

Spec == Init /\ [][Next]_vars

(***************************************************************************)
(* ItemsProcessor driven by an arbitrary client: load_item and             *)
(* process_items in any order, one call at a time.                         *)
(***************************************************************************)
\* the lines this client passes
ApiLines == {LTrackT1, LAlbumA1, LAlbumA3}

api_load_item ==
    /\ \E line \in ApiLines : load_item(line)
    /\ UNCHANGED <<mainpc, pc>>

api_process_items ==
    /\ process_items
    /\ UNCHANGED mainpc

NextApi ==
    \/ api_load_item
    \/ api_process_items
    \/ next_group
    \/ attempt
    \/ backoff_sleep
    \/ pacing_sleep

SpecApi == Init /\ [][NextApi]_vars

\* the same client when every remote call and every sleep of a running
\* process_items returns: no step of the call is put off for ever
SpecApiFair ==
    /\ Init
    /\ [][NextApi]_vars
    /\ WF_vars(next_group)
    /\ WF_vars(attempt)
    /\ WF_vars(backoff_sleep)
    /\ WF_vars(pacing_sleep)


(***************************************************************************)
(* One save_audio_item call after the other, statement by statement:       *)
(* TrackLoader::load_track with find_available_alternative, then the file  *)
(* name, the existence test, run_helper_script and the raw write.          *)
(***************************************************************************)
\* alternatives an audio item lists at most
MaxAlts == 3

\* the slice &decrypted_buffer[0xa7..]
HeaderLen == 167

\* the priority list of load_track
Formats ==
    <<"OGG_VORBIS_320", "MP3_320", "MP3_256", "OGG_VORBIS_160", "MP3_160",
      "OGG_VORBIS_96", "MP3_96">>
NoFormat == "none"

\* formats.iter().find_map(|format| audio_item.files.get(format)): the first
\* listed encoding that is a key of the file map
SelectFormat(fs) ==
    LET hits == {i \in 1..Len(Formats) : Formats[i] \in fs}
    IN  IF hits = {} THEN NoFormat ELSE Formats[Min(hits)]

\* stream_data_rate: kbps * 1024, or 0 for None
stream_data_rate(format) ==
    CASE format \in {"OGG_VORBIS_96", "MP3_96"} -> 12 * 1024
      [] format \in {"OGG_VORBIS_160", "MP3_160", "MP3_160_ENC", "AAC_160"}
            -> 20 * 1024
      [] format \in {"OGG_VORBIS_320", "MP3_320", "AAC_320", "OTHER5"}
            -> 40 * 1024
      [] format = "MP3_256" -> 32 * 1024
      [] format = "AAC_24" -> 3 * 1024
      [] format = "AAC_48" -> 6 * 1024
      [] format = "MP4_128" -> 16 * 1024
      [] format = "FLAC_FLAC" -> 112 * 1024
      [] OTHER -> 0

\* the decrypted stream of n bytes
DecryptedBytes(n) == [i \in 1..n |-> i % 256]
\* &decrypted_buffer[0xa7..]
StripHeader(b) == SubSeq(b, HeaderLen + 1, Len(b))
\* the buffer load_track returns: the stripped copy is bound to a new local
\* of the if block and dropped with it
ReturnedBuffer(b, format) ==
    LET decrypted_buffer == StripHeader(b)
    IN  b

\* what fetching an alternative can give: an error, an item that reports
\* itself unavailable, an available item with a file, an available item
\* without files
AltErr == [res |-> "Err", avail |-> FALSE, files |-> {}]
AltUnavailable == [res |-> "Ok", avail |-> FALSE, files |-> {"MP3_96"}]
AltGood == [res |-> "Ok", avail |-> TRUE, files |-> {"OGG_VORBIS_160"}]
AltNoFiles == [res |-> "Ok", avail |-> TRUE, files |-> {}]
AltKinds == {AltErr, AltUnavailable, AltGood, AltNoFiles}
AltLists == UNION {[1..n -> AltKinds] : n \in 0..MaxAlts}

\* the file maps of the requested item
FileMaps ==
    SUBSET {"OGG_VORBIS_320", "MP3_320", "OGG_VORBIS_96", "MP3_96",
            "FLAC_FLAC"}
\* lengths of the decrypted stream
StreamLens == {HeaderLen - 1, HeaderLen, HeaderLen + 3}

\* the answers when everything works: the item is available with an Ogg
\* Vorbis file
GoodEnv ==
    [get |-> "Ok", avail |-> TRUE, files |-> {"OGG_VORBIS_320"},
     has_alts |-> FALSE, alts |-> <<>>, open |-> "Ok", key |-> "Ok",
     read |-> "Ok", decrypt |-> "Ok", len |-> HeaderLen + 3, cover |-> TRUE,
     encode |-> TRUE, helper |-> "ok", raw |-> "ok"]
GoodMp3 == [GoodEnv EXCEPT !.files = {"MP3_320"}]

\* the answers a call may meet
CallEnvs ==
    {[GoodEnv EXCEPT !.get = "Err"]}
    \cup {[GoodEnv EXCEPT !.avail = a, !.files = fs, !.has_alts = h,
                          !.alts = IF h THEN <<AltErr, AltGood>> ELSE <<>>] :
             a \in BOOLEAN, fs \in FileMaps, h \in BOOLEAN}
    \cup {[GoodEnv EXCEPT !.avail = a, !.files = {}, !.has_alts = TRUE,
                          !.alts = l] : a \in BOOLEAN, l \in AltLists}
    \cup UNION {
           {[e EXCEPT !.open = "Err"]}
           \cup {[e EXCEPT !.key = k] : k \in {"AesKey", "KeyOther"}}
           \cup {[e EXCEPT !.read = "Panic"], [e EXCEPT !.decrypt = "Panic"]}
           \cup {[e EXCEPT !.len = n] : n \in StreamLens}
           \cup {[e EXCEPT !.cover = FALSE], [e EXCEPT !.encode = FALSE]}
           \cup {[e EXCEPT !.helper = h, !.raw = r] :
                    h \in HelperOutcomes, r \in RawOutcomes}
           : e \in {GoodEnv, GoodMp3}}

\* the identifier and the directory of the calls
SaveId == T1
SaveDir == GTracks

\* variant: alternatives are probed whenever they are listed
FindStartProbing(item) ==
    IF item.has_alts THEN "Probe"
    ELSE IF ~item.avail THEN "None"
    ELSE IF item.files # {} THEN "Some"
    ELSE "None"
\* find_available_alternative up to the stream of fetches: None, the item
\* itself, or the alternatives are to be probed
FindStart(item) ==
    IF ~item.avail THEN "None"
    ELSE IF item.files # {} THEN "Some"
    ELSE IF item.has_alts THEN "Probe"
    ELSE "None"

\* variant: any alternative that resolves is accepted
ResolvesOnly(alt) == alt.res = "Ok"
\* filter_map(x.ok()) and filter(x.availability.is_ok())
Qualifies(alt) == alt.res = "Ok" /\ alt.avail

Returns(res, how) ==
    /\ spc' = "returned"
    /\ sret' = [result |-> res, how |-> how]

\* the variables of the program that a save call does not touch
notfiles == <<grouped_ids, penalty_delay, dirs, mainpc, pc, nread, runs,
              taken, group, members, index, denied, start_delay, sleeps,
              result, last, drained, finals, since>>

\* save_audio_item is called: AudioItem::get_file for the requested id and
\* find_available_alternative up to the first poll of the fetches
save_call ==
    /\ spc = "idle"
    /\ \E env \in CallEnvs :
         /\ senv' = env
         /\ IF env.get = "Err"
            THEN /\ Returns("Err", "Remote")
                 /\ sitem' = -1
                 /\ pending' = {}
                 /\ probed' = {}
            ELSE LET start == FindStart(env)
                 IN  IF start = "Some"
                     THEN /\ spc' = "found"
                          /\ sitem' = 0
                          /\ pending' = {}
                          /\ probed' = {}
                          /\ sret' = [result |-> "none", how |-> "none"]
                     ELSE IF start = "Probe" /\ Len(env.alts) > 0
                     THEN /\ spc' = "probing"
                          /\ sitem' = -1
                          /\ pending' = 1..Len(env.alts)
                          /\ probed' = 1..Len(env.alts)
                          /\ sret' = [result |-> "none", how |-> "none"]
                     ELSE /\ Returns("Err", "Unavailable")
                          /\ sitem' = -1
                          /\ pending' = {}
                          /\ probed' = {}
    /\ files0' = files
    /\ spawns' = 0
    /\ sformat' = NoFormat
    /\ sbuf' = <<>>
    /\ UNCHANGED <<files, notfiles>>

\* one fetch of the FuturesUnordered completes: the first output that
\* qualifies is what next() gives and the other fetches are dropped; when the
\* last fetch has completed without one, next() gives None
alternative_done ==
    /\ spc = "probing"
    /\ \E i \in pending :
         IF Qualifies(senv.alts[i])
         THEN /\ spc' = "found"
              /\ sitem' = i
              /\ pending' = {}
              /\ UNCHANGED sret
         ELSE /\ pending' = pending \ {i}
              /\ UNCHANGED sitem
              /\ IF pending' = {}
                 THEN Returns("Err", "Unavailable")
                 ELSE UNCHANGED <<spc, sret>>
    /\ UNCHANGED <<senv, probed, sformat, sbuf, spawns, files0, files,
                   notfiles>>

\* the audio item in use
ItemInUse == IF sitem = 0 THEN senv ELSE senv.alts[sitem]

\* load_track from the priority list to its return
load_track_rest ==
    /\ spc = "found"
    /\ LET format == SelectFormat(ItemInUse.files)
       IN  /\ sformat' = format
           /\ IF format = NoFormat THEN
                 Returns("Err", "Unavailable") /\ UNCHANGED sbuf
              ELSE IF stream_data_rate(format) = 0 THEN
                 Returns("Err", "Unavailable") /\ UNCHANGED sbuf
              ELSE IF senv.open = "Err" THEN
                 Returns("Err", "Remote") /\ UNCHANGED sbuf
              ELSE IF senv.key # "Ok" THEN
                 Returns("Err", senv.key) /\ UNCHANGED sbuf
              ELSE IF \/ senv.read = "Panic"
                      \/ senv.decrypt = "Panic"
                      \/ format \in OggFormats /\ senv.len < HeaderLen THEN
                 /\ spc' = "panic"
                 /\ sret' = [result |-> "Panic", how |-> "Panic"]
                 /\ UNCHANGED sbuf
              ELSE
                 /\ spc' = "loaded"
                 /\ sbuf' = ReturnedBuffer(DecryptedBytes(senv.len), format)
                 /\ UNCHANGED sret
    /\ UNCHANGED <<senv, pending, probed, sitem, spawns, files0, files,
                   notfiles>>

\* the destination of this call
Destination ==
    FullPath(SaveDir, FileNameOf(AudioItems[SaveId]) \o <<".">>
                      \o ExtensionOf(sformat))

\* variant: the destination is taken to be absent
NeverExists(path, fsys) == FALSE
\* full_path.exists()
Exists(path, fsys) == path \in DOMAIN fsys

\* save_audio_item from the cover to the existence test
save_prepare ==
    /\ spc = "loaded"
    /\ IF ~senv.cover THEN Returns("Err", "NotFound")
       ELSE IF ~senv.encode THEN Returns("Err", "Encode")
       ELSE IF ExtensionOf(sformat) = NoExtension
            THEN Returns("Err", "Internal")
       ELSE IF Exists(Destination, files) THEN Returns("Ok", "Skipped")
       ELSE spc' = "helper" /\ UNCHANGED sret
    /\ UNCHANGED <<senv, pending, probed, sitem, sformat, sbuf, spawns,
                   files0, files, notfiles>>

\* Self::run_helper_script(..) and the match on its result
helper_step ==
    /\ spc = "helper"
    /\ LET h == run_helper_script(ExtensionOf(sformat), senv.helper)
       IN  /\ spawns' = spawns + (IF h.spawned THEN 1 ELSE 0)
           /\ IF h.ok
              THEN /\ files' = (Destination :> "tagged") @@ files
                   /\ Returns("Ok", "Tagged")
              ELSE /\ spc' = "raw"
                   /\ UNCHANGED <<files, sret>>
    /\ UNCHANGED <<senv, pending, probed, sitem, sformat, sbuf, files0,
                   notfiles>>

\* fs::File::create(&full_path)? and file.write_all(&audio_buffer)?
raw_write ==
    /\ spc = "raw"
    /\ IF senv.raw = "create"
       THEN Returns("Err", "Io") /\ UNCHANGED files
       ELSE IF senv.raw = "write"
       THEN /\ files' = (Destination :> "partial") @@ files
            /\ Returns("Err", "Io")
       ELSE /\ files' = (Destination :> "raw") @@ files
            /\ Returns("Ok", "Raw")
    /\ UNCHANGED <<senv, pending, probed, sitem, sformat, sbuf, spawns,
                   files0, notfiles>>

\* the caller has the returned value; the locals of the call are gone
save_return ==
    /\ spc = "returned"
    /\ spc' = "idle"
    /\ senv' = <<>>
    /\ pending' = {}
    /\ probed' = {}
    /\ sitem' = -1
    /\ sformat' = NoFormat
    /\ sbuf' = <<>>
    /\ spawns' = 0
    /\ files0' = EmptyMap
    /\ sret' = [result |-> "none", how |-> "none"]
    /\ UNCHANGED <<files, notfiles>>

NextSave ==
    \/ save_call
    \/ save_return
    \/ alternative_done
    \/ load_track_rest
    \/ save_prepare
    \/ helper_step
    \/ raw_write

SpecSave == Init /\ [][NextSave]_vars


(***************************************************************************)
(* Properties.                                                             *)
(***************************************************************************)
\* the step is one turn of the retry loop
AttemptStep == pc = "item" /\ last'.op = "attempt"
\* the loop of process_items stays at the same item
SameItem == group' = group /\ members' = members /\ index' = index
\* how a successful save step ends
SavedKinds == {"Tagged", "Raw", "Skipped"}
\* the errors of a save step other than the denied key
OtherErrKinds == {"KeyOther", "Unavailable", "Remote", "NotFound", "Encode",
                  "Io", "Internal"}

\* C1: every key-denied failure adds exactly 60s to penalty_delay; above 300s
\* the run ends Fatal and nothing is attempted any more; otherwise the
\* processor sleeps exactly the new penalty_delay and retries the same item.
C1_KeyDeniedBackoff ==
    [][ /\ (AttemptStep /\ last'.result = "AesKey") =>
              /\ penalty_delay' = penalty_delay + 60
              /\ IF penalty_delay' > 300
                 THEN pc' = "idle" /\ result' = "Fatal"
                 ELSE pc' = "backoff" /\ result' = result /\ SameItem
        /\ pc = "backoff" =>
              /\ last' = Step("sleep", "backoff", "Ok", penalty_delay)
              /\ penalty_delay' = penalty_delay
              /\ pc' = "item"
              /\ SameItem
        /\ result = "Fatal" =>
              /\ last'.op # "attempt"
              /\ pc' = "idle"
              /\ files' = files
      ]_vars

\* a retry after a sleep of the full 300s
C1_Witness ==
    /\ pc = "item"
    /\ last.op = "sleep"
    /\ last.arg = "backoff"
    /\ last.secs = 300

\* C2 as stated: from 0, a third key-denied failure in a row gives 180s and a
\* retry, and a fourth one ends the run Fatal.
C2_FourthAborts ==
    (start_delay = 0 /\ last.op = "attempt" /\ last.result = "AesKey") =>
        /\ denied = 3 => penalty_delay = 180 /\ pc = "backoff"
        /\ denied = 4 => result = "Fatal"

\* C2 amended: from 0, the third, fourth and fifth key-denied failure in a
\* row give 180s, 240s and 300s and a retry each; the sixth gives 360s and
\* ends the run Fatal.
C2_SixthAborts ==
    (start_delay = 0 /\ last.op = "attempt" /\ last.result = "AesKey") =>
        /\ denied \in 1..6
        /\ penalty_delay = 60 * denied
        /\ denied = 3 => penalty_delay = 180 /\ pc = "backoff"
        /\ denied = 4 => penalty_delay = 240 /\ pc = "backoff"
        /\ denied = 5 => penalty_delay = 300 /\ pc = "backoff"
        /\ denied <= 5 => result # "Fatal"
        /\ denied = 6 => result = "Fatal" /\ pc = "idle"

\* the sixth key-denied failure in a row on an item started at 0
C2_Witness ==
    /\ start_delay = 0
    /\ last.op = "attempt"
    /\ last.result = "AesKey"
    /\ denied = 6
    /\ result = "Fatal"

\* C3: penalty_delay starts at 0 and changes in two events only: a key-denied
\* failure adds 60s, a successful save step (a skipped one included) sets
\* it to 0; ingestion, sleeps and abandoning an item leave it as it is.
C3_PenaltyEvents ==
    /\ penalty_delay = 0
    /\ [][ /\ penalty_delay' # penalty_delay =>
                 /\ AttemptStep
                 /\ \/ /\ last'.result = "AesKey"
                       /\ penalty_delay' = penalty_delay + 60
                    \/ /\ last'.result \in SavedKinds
                       /\ penalty_delay' = 0
           /\ (AttemptStep /\ last'.result \in SavedKinds) =>
                 penalty_delay' = 0
           /\ penalty_delay' < penalty_delay =>
                 AttemptStep /\ last'.result \in SavedKinds
           /\ (\/ last'.op \in {"load_item", "sleep"}
               \/ AttemptStep /\ last'.result \in OtherErrKinds) =>
                 penalty_delay' = penalty_delay
         ]_vars

\* a skipped save resets a penalty that was above 0
C3_Witness ==
    /\ last.op = "attempt"
    /\ last.result = "Skipped"
    /\ last.secs > 0
    /\ penalty_delay = 0

Stopped == (pc = "idle" /\ result # "none") \/ pc = "panic"
\* some drained item has not been attempted
LeftOver ==
    \/ \E k \in DOMAIN taken : HashSetLen(taken[k]) > 0
    \/ group # NoGroup /\ index < Len(members) - 1

\* C5: process_items ends with drained items not yet attempted only by the
\* Fatal abort.
C5_OnlyFatalStopsEarly == (Stopped /\ LeftOver) => result = "Fatal"

\* C6: inside a group, the pacing sleeps taken equal the index of the current
\* item (none before the first item, one before every later one); a sleep is
\* pending only when another item of the group follows, whatever the outcome
\* of the item before; a finished group of N items has seen N-1 sleeps; each
\* sleep is 10s.
C6_PacingSleeps ==
    /\ pc \in {"item", "backoff", "pacing"} =>
          sleeps = index /\ index < Len(members)
    /\ pc = "pacing" => index < Len(members) - 1
    /\ (pc = "group" /\ group # NoGroup) =>
          sleeps = Len(members) - 1 /\ Len(members) >= 1
    /\ (last.op = "sleep" /\ last.arg = "pacing") =>
          last.secs = 10 /\ pc = "item" /\ index >= 1
    /\ (last.op = "attempt" /\ last.result \in SavedKinds \cup OtherErrKinds) =>
          pc = IF index < Len(members) - 1 THEN "pacing" ELSE "group"
    /\ (last.op = "create_dir_all" /\ last.result = "Ok") =>
          sleeps = 0 /\ index = 0 /\ pc = "item"

\* a group of three items has been finished with two sleeps
C6_Witness ==
    /\ pc = "group"
    /\ Len(members) = 3
    /\ sleeps = 2

KeyTracks == <<"t","r","a","c","k","s">>
KeyEpisodes == <<"e","p","i","s","o","d","e","s">>
KeyAlbumsY == <<"a","l","b","u","m","s","/","y">>
PrePlaylists == <<"p","l","a","y","l","i","s","t","s","/">>
PreAlbums == <<"a","l","b","u","m","s","/">>
PreShows == <<"s","h","o","w","s","/">>
FileT1 == <<"a"," ","-"," ","q",".","o","g","g">>

AtMostOnce(m) == \A k \in DOMAIN m : \A x \in DOMAIN m[k] : m[k][x] = 1

\* C7: every group of the store holds every identifier at most once, and a
\* load_item call removes no group and no identifier of a group.
C7_NoDuplicates ==
    /\ [](AtMostOnce(grouped_ids))
    /\ [][ last'.op = "load_item" =>
             \A k \in DOMAIN grouped_ids :
                /\ k \in DOMAIN grouped_ids'
                /\ DOMAIN grouped_ids[k] \subseteq DOMAIN grouped_ids'[k]
         ]_vars

\* albums A1 = {T1, T2} and A2 = {T2, T3, T2} have both gone into albums/y
C7_Witness ==
    /\ KeyAlbumsY \in DOMAIN grouped_ids
    /\ DOMAIN grouped_ids[KeyAlbumsY] = {Track(T1), Track(T2), Track(T3)}
    /\ grouped_ids[KeyAlbumsY][Track(T2)] = 1

\* the groups a step adds or changes
ChangedKeys ==
    {k \in DOMAIN grouped_ids' :
        k \notin DOMAIN grouped_ids \/ grouped_ids'[k] # grouped_ids[k]}
HasPrefix(k, pre) == Len(k) > Len(pre) /\ SubSeq(k, 1, Len(pre)) = pre

\* C8: a track line changes group tracks only and an episode line group
\* episodes only, each adding its identifier; an album, playlist or show line
\* changes only a group albums/<name>, playlists/<name>, shows/<name>; after
\* track T1 and album A1 = {T1, T2} the store is exactly
\* {tracks: {T1}, albums/y: {T1, T2}}; a save writes below its own group only.
C8_GroupKeys ==
    [][ /\ last'.op = "load_item" =>
             LET c == captures(last'.arg)
             IN  /\ c.kind = "track" =>
                       /\ ChangedKeys \subseteq {KeyTracks}
                       /\ last'.result = "Ok" =>
                             Track(c.id) \in DOMAIN grouped_ids'[KeyTracks]
                 /\ c.kind = "episode" =>
                       /\ ChangedKeys \subseteq {KeyEpisodes}
                       /\ last'.result = "Ok" =>
                             Episode(c.id) \in DOMAIN grouped_ids'[KeyEpisodes]
                 /\ c.kind = "album" =>
                       \A k \in ChangedKeys : HasPrefix(k, PreAlbums)
                 /\ c.kind = "playlist" =>
                       \A k \in ChangedKeys : HasPrefix(k, PrePlaylists)
                 /\ c.kind = "show" =>
                       \A k \in ChangedKeys : HasPrefix(k, PreShows)
                 /\ Cardinality(ChangedKeys) <= 1
                 /\ ~c.matched => ChangedKeys = {}
        /\ (/\ last'.op = "load_item"
            /\ last'.arg = LTrackT1
            /\ grouped_ids = EmptyMap) =>
               grouped_ids' = (KeyTracks :> (Track(T1) :> 1))
        /\ (/\ last'.op = "load_item"
            /\ last'.arg = LAlbumA1
            /\ last'.result = "Ok"
            /\ grouped_ids = (KeyTracks :> (Track(T1) :> 1))) =>
               grouped_ids' = (KeyTracks :> (Track(T1) :> 1))
                              @@ (KeyAlbumsY :>
                                    ((Track(T1) :> 1) @@ (Track(T2) :> 1)))
        /\ AttemptStep =>
               \A p \in DOMAIN files' \ DOMAIN files : p[1] = group
      ]_vars

\* T1 has been saved once below tracks and once below albums/y
C8_Witness ==
    /\ <<KeyTracks, FileT1>> \in DOMAIN files
    /\ <<KeyAlbumsY, FileT1>> \in DOMAIN files
    /\ dirs = {KeyTracks, KeyAlbumsY}

\* C9: a process_items call leaves the store empty; the store stays empty
\* while the call runs and when it ends, however it ends; only load_item
\* fills it; a further call right after a call has ended finds the store
\* empty, attempts nothing and returns Ok.
C9_Drain ==
    [][ /\ last'.op = "process_items" => grouped_ids' = EmptyMap
        /\ (pc # "idle" \/ pc' # "idle") => grouped_ids' = EmptyMap
        /\ grouped_ids' # grouped_ids =>
               last'.op \in {"load_item", "process_items"}
        /\ (last'.op = "process_items" /\ runs >= 1 /\ last.op # "load_item") =>
               /\ grouped_ids = EmptyMap
               /\ last'.result = "Empty"
               /\ result' = "Ok"
               /\ pc' = "idle"
               /\ files' = files
      ]_vars

\* one line ingested, a first call that saved a file, and a second call that
\* found nothing
C9_Witness ==
    /\ runs = 2
    /\ nread = 1
    /\ DOMAIN files # {}
    /\ last.op = "process_items"
    /\ last.result = "Empty"
    /\ result = "Ok"

\* C10: a failed remote lookup of a playlist, album or show line makes
\* load_item return the error with the store as it was, main stays in the
\* line loop, and a line that follows is ingested as usual.
C10_LookupErrorIsolated ==
    [][ /\ (last'.op = "load_item" /\ last'.result = "RemoteErr") =>
               /\ captures(last'.arg).kind \in {"playlist", "album", "show"}
               /\ grouped_ids' = grouped_ids
               /\ mainpc' = "ingest"
               /\ pc' = "idle"
        /\ (/\ last.op = "load_item"
            /\ last.result = "RemoteErr"
            /\ last'.op = "load_item"
            /\ last'.result = "Ok") =>
               /\ last'.arg = LTrackT1 =>
                     Track(T1) \in DOMAIN grouped_ids'[KeyTracks]
               /\ last'.arg = LAlbumA1 =>
                     {Track(T1), Track(T2)} \subseteq
                        DOMAIN grouped_ids'[KeyAlbumsY]
      ]_vars

\* a lookup failed while the store already held a group
C10_Witness ==
    /\ last.op = "load_item"
    /\ last.result = "RemoteErr"
    /\ DOMAIN grouped_ids # {}
    /\ nread = 2


KeyDone == <<"d","o","n","e">>

\* C11: while main is in the line loop nothing is drained and nothing is
\* attempted; the loop ends at a line that is "done" once its surrounding
\* whitespace is removed, and at no other line ("Done" and "done now" are
\* handed to load_item); after the loop no line is read or ingested; and
\* process_items is called once, after the loop.
C11_Phases ==
    /\ [](mainpc = "ingest" =>
             /\ pc = "idle"
             /\ runs = 0
             /\ taken = EmptyMap
             /\ files = EmptyMap
             /\ dirs = {})
    /\ [](runs <= 1)
    /\ [](mainpc \in {"wait", "exit"} => runs = 1)
    /\ [][ /\ last'.op = "load_item" =>
                 /\ mainpc = "ingest"
                 /\ last'.arg # KeyDone
                 /\ last'.arg # LDone
           /\ last'.op = "terminator" =>
                 /\ mainpc = "ingest" /\ mainpc' = "process"
                 /\ SelectSeq(last'.arg, LAMBDA c : c # " ") = KeyDone
                 /\ last'.arg \notin {LDoneCap, LDoneNow}
           /\ mainpc # "ingest" =>
                 /\ mainpc' # "ingest"
                 /\ nread' = nread
                 /\ last'.op \notin {"load_item", "read_error", "terminator",
                                     "eof"}
           /\ last'.op = "process_items" => mainpc = "process" /\ runs = 0
           /\ AttemptStep => mainpc = "wait"
         ]_vars

\* the line " done " has ended the loop after two other lines
C11_Witness ==
    /\ last.op = "terminator"
    /\ last.arg = LDone
    /\ nread = 2
    /\ mainpc = "process"

\* the kind tokens of the pattern, by kind
TokenOf ==
    [playlist |-> <<"p","l","a","y","l","i","s","t">>,
     track    |-> <<"t","r","a","c","k">>,
     album    |-> <<"a","l","b","u","m">>,
     episode  |-> <<"e","p","i","s","o","d","e">>,
     show     |-> <<"s","h","o","w">>]
\* kind token, separator and one alphanumeric character stand at position i
PatternAt(line, i, kind) ==
    LET n == Len(TokenOf[kind])
    IN  /\ i + n + 1 <= Len(line)
        /\ SubSeq(line, i, i + n - 1) = TokenOf[kind]
        /\ line[i + n] \in {"/", ":"}
        /\ line[i + n + 1] \in AlNum
Occurrences(line) ==
    {o \in (1..Len(line)) \X DOMAIN TokenOf : PatternAt(line, o[1], o[2])}
\* the alphanumeric run of an occurrence
RunOf(line, o) ==
    LET p == o[1] + Len(TokenOf[o[2]]) + 1
        q == CHOOSE q \in p..Len(line) :
                /\ \A j \in p..q : line[j] \in AlNum
                /\ q = Len(line) \/ line[q + 1] \notin AlNum
    IN  SubSeq(line, p, q)
\* load_item has resolved the identifier (kind, id), as far as the store and
\* the returned value show it
Resolved(kind, id) ==
    /\ last'.result \in {"Ok", "RemoteErr"}
    /\ kind = "track" => Track(id) \in DOMAIN grouped_ids'[KeyTracks]
    /\ kind = "episode" => Episode(id) \in DOMAIN grouped_ids'[KeyEpisodes]
    /\ (kind \in {"playlist", "album", "show"} /\ last'.result = "Ok") =>
          DOMAIN grouped_ids' # {}
    /\ (kind \in {"track", "episode"}) => last'.result = "Ok"
NothingDone ==
    /\ last'.result = "Ok"
    /\ grouped_ids' = grouped_ids

\* C12 as stated: every occurrence of the pattern in the line is resolved
\* to its kind and its run; a line without the pattern is a success that
\* leaves the store as it was.
C12_EveryMatchResolves ==
    [][ last'.op = "load_item" =>
          IF Occurrences(last'.arg) = {} THEN NothingDone
          ELSE \A o \in Occurrences(last'.arg) :
                  Resolved(o[2], RunOf(last'.arg, o))
      ]_vars

\* C12: the leftmost occurrence of the pattern gives the kind and, with its
\* whole alphanumeric run, the id; when the id decodes, the identifier of
\* that kind and id is resolved, otherwise load_item returns the decoding
\* error and the store is as it was; a line without the pattern is a success
\* that leaves the store as it was.
C12_LeftmostMatch ==
    [][ last'.op = "load_item" =>
          IF Occurrences(last'.arg) = {} THEN NothingDone
          ELSE LET o == CHOOSE o \in Occurrences(last'.arg) :
                           \A u \in Occurrences(last'.arg) : o[1] <= u[1]
                   id == RunOf(last'.arg, o)
               IN  IF id \in DecodableIds
                   THEN Resolved(o[2], id)
                   ELSE /\ last'.result = "IdErr"
                        /\ grouped_ids' = grouped_ids
      ]_vars

\* "track/T1?si" has put track T1 into group tracks
C12_Witness ==
    /\ last.op = "load_item"
    /\ last.arg = <<"t","r","a","c","k","/","T","1","?","s","i">>
    /\ last.result = "Ok"
    /\ nread = 1
    /\ DOMAIN grouped_ids = {KeyTracks}
    /\ DOMAIN grouped_ids[KeyTracks] = {Track(T1)}


\* the call has got an audio item from AudioItem::get_file
Fetched == spc # "idle" /\ senv.get = "Ok"
\* load_track has returned Ok in this call
Loaded ==
    \/ spc \in {"loaded", "helper", "raw"}
    \/ /\ spc = "returned"
       /\ sret.how \in {"Tagged", "Raw", "Skipped", "NotFound", "Encode",
                        "Internal", "Io"}
FailedUnavailable ==
    /\ spc = "returned"
    /\ sret = [result |-> "Err", how |-> "Unavailable"]

\* C13: an item that reports an unavailability reason fails with Unavailable
\* at once and none of its alternatives is fetched; an available item with
\* a file is the item in use and no alternative is fetched; alternatives are
\* fetched only for an available item without files that lists them; an
\* available item without files and without alternatives fails with
\* Unavailable.
C13_Availability ==
    Fetched =>
        /\ ~senv.avail => FailedUnavailable /\ probed = {} /\ sitem = -1
        /\ (senv.avail /\ senv.files # {}) => probed = {} /\ sitem = 0
        /\ probed # {} =>
              senv.avail /\ senv.files = {} /\ senv.has_alts
        /\ (senv.avail /\ senv.files = {} /\ ~senv.has_alts) =>
              FailedUnavailable /\ probed = {} /\ sitem = -1

\* an unavailable item that lists two alternatives has failed and none of
\* them was fetched
C13_Witness ==
    /\ spc = "returned"
    /\ senv.get = "Ok"
    /\ ~senv.avail
    /\ senv.has_alts
    /\ Len(senv.alts) = 2
    /\ probed = {}
    /\ sret.how = "Unavailable"

\* alternative i of the call resolves and reports itself available
GoodAlt(i) == senv.alts[i].res = "Ok" /\ senv.alts[i].avail
\* three alternatives, and the second one alone is good
OnlySecond ==
    /\ senv.has_alts
    /\ Len(senv.alts) = 3
    /\ {i \in 1..3 : GoodAlt(i)} = {2}
    /\ senv.alts[2].files # {}

\* C14 as stated: with the requested item unavailable, three alternatives
\* and the second one alone good, load_track succeeds with the second
\* alternative.
C14_UnavailablePrimary ==
    (spc = "returned" /\ senv.get = "Ok" /\ ~senv.avail /\ OnlySecond) =>
        Loaded /\ sitem = 2

\* C14: with the requested item available but without files, the item in
\* use after the probing is a good alternative, in whatever order the
\* fetches complete: with three alternatives and the second one alone good
\* it is the second one, and load_track succeeds with its file; with no good
\* alternative every fetch has completed and the call has failed with
\* Unavailable.
C14_SecondAlternative ==
    (Fetched /\ senv.avail /\ senv.files = {} /\ senv.has_alts) =>
        /\ spc = "probing" => sitem = -1 /\ pending # {}
        /\ spc # "probing" =>
              IF \E i \in 1..Len(senv.alts) : GoodAlt(i)
              THEN /\ sitem \in 1..Len(senv.alts)
                   /\ GoodAlt(sitem)
              ELSE /\ FailedUnavailable
                   /\ sitem = -1
                   /\ pending = {}
        /\ (OnlySecond /\ spc = "returned") =>
              /\ sitem = 2
              /\ Loaded
              /\ sformat = "OGG_VORBIS_160"

\* of the alternatives failed, good, unavailable the second one has been
\* used and the call has succeeded
C14_Witness ==
    /\ spc = "returned"
    /\ senv.avail
    /\ senv.files = {}
    /\ senv.alts = <<AltErr, AltGood, AltUnavailable>>
    /\ sitem = 2
    /\ sret.result = "Ok"

PriorityList ==
    <<"OGG_VORBIS_320", "MP3_320", "MP3_256", "OGG_VORBIS_160", "MP3_160",
      "OGG_VORBIS_96", "MP3_96">>

\* C15: once the encoding has been selected for the item in use, it is the
\* earliest entry of the priority list that is a key of the file map; with
\* no such entry the call has failed with the kind UnsupportedFormat.
C15_SelectionAndKind ==
    (spc \in {"loaded", "helper", "raw", "returned", "panic"} /\ sitem >= 0) =>
        LET hits == {i \in 1..7 : PriorityList[i] \in ItemInUse.files}
        IN  IF hits = {}
            THEN sret = [result |-> "Err", how |-> "UnsupportedFormat"]
            ELSE /\ sformat = PriorityList[Min(hits)]
                 /\ \A j \in 1..7 :
                       PriorityList[j] \in ItemInUse.files =>
                          Min(hits) <= j

\* C16: the buffer load_track returns is the decrypted stream without its
\* first 167 bytes for an Ogg Vorbis encoding, and the decrypted stream
\* itself for any other encoding.
C16_HeaderStripped ==
    spc \in {"loaded", "helper", "raw"} =>
        sbuf = IF sformat \in {"OGG_VORBIS_96", "OGG_VORBIS_160",
                               "OGG_VORBIS_320"}
               THEN SubSeq(DecryptedBytes(senv.len), 168, senv.len)
               ELSE DecryptedBytes(senv.len)

\* the call has come to the existence test
AtExistsTest ==
    /\ spc = "loaded"
    /\ senv.cover
    /\ senv.encode
    /\ ExtensionOf(sformat) # NoExtension

\* C17: a call that finds its destination present at the existence test
\* returns Ok with the files as they were and no helper spawned; no call
\* changes or removes a file that was there when it started; so a call after
\* one that left the destination in place leaves the files as that one left
\* them.
C17_SkipExisting ==
    /\ [][ (AtExistsTest /\ Destination \in DOMAIN files) =>
              /\ spc' = "returned"
              /\ sret' = [result |-> "Ok", how |-> "Skipped"]
              /\ files' = files
              /\ spawns' = 0
         ]_vars
    /\ [](sret.how = "Skipped" =>
             /\ sret.result = "Ok"
             /\ files = files0
             /\ spawns = 0
             /\ Destination \in DOMAIN files0)
    /\ [](spc # "idle" =>
             \A q \in DOMAIN files0 :
                q \in DOMAIN files /\ files[q] = files0[q])

\* a call has met the destination an earlier call left and has returned Ok
\* with the files unchanged
C17_Witness ==
    /\ spc = "returned"
    /\ sret = [result |-> "Ok", how |-> "Skipped"]
    /\ Destination \in DOMAIN files0
    /\ files = files0
    /\ spawns = 0

KeyOgg == <<"o","g","g">>
\* the helper cannot do its work in this call
HelperFails == ExtensionOf(sformat) # KeyOgg \/ senv.helper # "ok"

\* C18: the helper is spawned for the ogg extension only and at most once in
\* a call; when it fails (no script for the extension, the spawn, the pipe,
\* the write to it, the wait, a non-zero exit) the call does not return but
\* goes on to the raw write, which is reached in no other way; the raw
\* write, when it works, leaves the raw bytes at the destination and the
\* call returns Ok; no returned error is the helper's.
C18_RawFallback ==
    /\ [](spawns <= 1)
    /\ [](spawns = 1 => ExtensionOf(sformat) = KeyOgg)
    /\ [](spc = "returned" =>
             sret.how \notin {"spawn", "pipe", "write", "wait", "nonzero"})
    /\ [](sret.how = "Raw" =>
             /\ sret.result = "Ok"
             /\ HelperFails
             /\ files[Destination] = "raw"
             /\ Destination \notin DOMAIN files0)
    /\ [][ /\ spawns' > spawns =>
                 spc = "helper" /\ ExtensionOf(sformat) = KeyOgg
           /\ spc' = "raw" => spc = "helper" /\ HelperFails
           /\ (spc = "helper" /\ HelperFails) =>
                 /\ spc' = "raw"
                 /\ files' = files
                 /\ sret' = sret
           /\ (spc = "raw" /\ senv.raw = "ok") =>
                 /\ files' = (Destination :> "raw") @@ files
                 /\ sret' = [result |-> "Ok", how |-> "Raw"]
                 /\ spc' = "returned"
           /\ files' # files => spc \in {"helper", "raw"}
         ]_vars

\* the helper was spawned once, exited non-zero, and the raw bytes stand at
\* the destination
C18_Witness ==
    /\ spc = "returned"
    /\ sret.how = "Raw"
    /\ senv.helper = "nonzero"
    /\ spawns = 1
    /\ files[Destination] = "raw"


\* the items mem::take handed to the running call
DrainedItems ==
    UNION {{<<k, x>> : x \in DOMAIN drained[k]} : k \in DOMAIN drained}

\* C19: no item has more than one final outcome, and only drained items
\* have one; when process_items returns Ok every drained item has exactly
\* one; an attempt is on the current item of the current group, whose
\* directory exists by then, after every earlier item of the group has had
\* its final outcome and before this item has had its own; between a
\* key-denied failure and the retry the current item stays the same.
C19_OneAtATime ==
    /\ [](\A p \in DOMAIN finals : finals[p] = 1 /\ p \in DrainedItems)
    /\ []((pc = "idle" /\ last.op = "return") =>
             /\ result = "Ok"
             /\ DOMAIN finals = DrainedItems)
    /\ [](pc \in {"item", "backoff", "pacing"} =>
             /\ group \in dirs
             /\ index < Len(members)
             /\ \A i \in 1..Len(members) :
                   <<group, members[i]>> \in DOMAIN finals
                      <=> (i <= index \/ (i = index + 1 /\ pc = "pacing")))
    /\ [][ /\ AttemptStep =>
                 /\ last'.arg = members[index + 1]
                 /\ <<group, last'.arg>> \notin DOMAIN finals
                 /\ group \in dirs
                 /\ \A i \in 1..index : <<group, members[i]>> \in DOMAIN finals
           /\ (pc = "backoff" \/ (pc = "item" /\ pc' = "backoff")) =>
                 UNCHANGED <<group, members, index, finals>>
           /\ finals' # finals =>
                 \/ last'.op = "process_items"
                 \/ /\ AttemptStep
                    /\ last'.result \in SavedKinds \cup OtherErrKinds
                    /\ finals' = (<<group, last'.arg>> :> 1) @@ finals
         ]_vars

\* a run over two groups with three items in all has returned Ok
C19_Witness ==
    /\ pc = "idle"
    /\ last.op = "return"
    /\ result = "Ok"
    /\ Cardinality(DOMAIN drained) = 2
    /\ Cardinality(DOMAIN finals) = 3


\* process_items is running
Processing == pc \in {"group", "item", "backoff", "pacing"}

AbandonStep == AttemptStep /\ last'.result \in OtherErrKinds
\* a save step has failed with the denied key
DeniedStep == AttemptStep /\ last'.result = "AesKey"

\* C21: the penalty is kept when an item is abandoned, so the item after one
\* that started at 0 and was abandoned after k key-denied failures starts
\* with 60k seconds (in general with what the abandoned item started with
\* plus 60k); over the whole run the penalty is 60 seconds times the
\* key-denied failures since the last successful save step, the first five
\* of them are followed by a retry and the sixth ends the run Fatal,
\* whichever item or group it happens on.
C21_SharedPenalty ==
    /\ [](penalty_delay = PENALTY_STEP * since)
    /\ [](since <= 6 /\ denied <= since)
    /\ [](since = 6 => pc = "idle" /\ result = "Fatal")
    /\ [](Processing => start_delay + PENALTY_STEP * denied = penalty_delay)
    /\ [][AbandonStep =>
             /\ penalty_delay' = penalty_delay
             /\ since' = since
             /\ start_delay' = start_delay + PENALTY_STEP * denied
             /\ start_delay = 0 => start_delay' = PENALTY_STEP * denied
             /\ pc' \in {"pacing", "group"}
         ]_vars
    /\ [][DeniedStep =>
             /\ since' = since + 1
             /\ since < 5 => pc' = "backoff" /\ result' = result
             /\ since = 5 => pc' = "idle" /\ result' = "Fatal"
         ]_vars
    /\ [][since' < since => AttemptStep /\ last'.result \in SavedKinds]_vars

\* the run has ended Fatal on an item that had fewer than six key-denied
\* failures of its own: the others were left by abandoned items before it
C21_Witness ==
    /\ pc = "idle"
    /\ result = "Fatal"
    /\ last.op = "attempt"
    /\ last.result = "AesKey"
    /\ since = 6
    /\ denied \in 1..5
    /\ start_delay = PENALTY_STEP * (6 - denied)
    /\ Cardinality(DOMAIN finals) >= 1

====
